---- MODULE Spec2Model ----
(***************************************************************************)
(* IPP attribute/value codec, attribute store serializer and stream parser *)
(* of ipp.rs, at byte level.                                               *)
(*                                                                         *)
(*   ipp-proto/src/value.rs   IppValue: to_tag, read, write                *)
(*   ipp-proto/src/parser.rs  IppParser: parse, parse_value, ...           *)
(*   src/attribute.rs         IppAttribute::write, IppAttributeList        *)
(*                                                                         *)
(* Strings and names are sequences of bytes (their UTF-8 encoding), i32    *)
(* values are integers converted to and from four big-endian bytes.        *)
(***************************************************************************)
EXTENDS Integers, Sequences, FiniteSets, TLC

VARIABLES
    debug_assertions, \* build profile: TRUE when debug_assert_eq! is compiled in
    value,            \* the IppValue handed to IppAttribute::new (codec runs)
    store,            \* the caller's IppAttributeList (serializer runs)
    wbuf,             \* bytes appended to the writer so far
    wres,             \* what write returned: [st, n]
    input,            \* bytes the reader yields
    eof,              \* TRUE when the reader has no byte beyond input
    fed,              \* number of chunks the reader has yielded
    pos,              \* number of bytes the parser has consumed
    last_delimiter,   \* IppParser.last_delimiter
    last_name,        \* IppParser.last_name (Option<String>)
    context,          \* IppParser.context (stack of frames)
    attributes,       \* IppParser.attributes
    trace,            \* the parser's debug! log: one record per tag handled
    pc,               \* position of the run
    result,           \* what parse returned
    latest,           \* the last add for each (group, name): [group, name, attribute, replaced another]
    index,            \* IppValueIterator.index
    yielded           \* what next has returned since into_iter, in order

vars == <<debug_assertions, value, store, wbuf, wres, input, eof, fed, pos,
          last_delimiter, last_name, context, attributes, trace, pc, result,
          latest, index, yielded>>

(***************************************************************************)
(* Bounds of the model.                                                    *)
(***************************************************************************)
\* number of chunks the reader yields before the stream is closed
MaxChunks == 3
\* number of children of a ListOf or Collection in the codec runs
MaxLen == 2
\* number of attributes the store holds in the serializer runs
MaxAttrs == 5
\* number of calls of next after an iteration has ended
MaxPolls == 2

(***************************************************************************)
(* Byte conversions (byteorder::BigEndian).                                *)
(***************************************************************************)
U8(n) == n % 256

U16Bytes(n) == <<(n \div 256) % 256, n % 256>>

U32Bytes(n) == <<(n \div 16777216) % 256, (n \div 65536) % 256, (n \div 256) % 256, n % 256>>

I32Bytes(i) == <<(i \div 16777216) % 256, (i \div 65536) % 256, (i \div 256) % 256, i % 256>>

I8FromByte(b) == IF b >= 128 THEN b - 256 ELSE b

U16From(s, p) == s[p + 1] * 256 + s[p + 2]

I32From(s, p) == I8FromByte(s[p + 1]) * 16777216 + s[p + 2] * 65536 + s[p + 3] * 256 + s[p + 4]

Slice(s, p, n) == [i \in 1..n |-> s[p + i]]

Last(s) == s[Len(s)]

Front(s) == [i \in 1..(Len(s) - 1) |-> s[i]]

(***************************************************************************)
(* Tag tables (ipp-proto/src/ipp.rs).                                      *)
(***************************************************************************)
ValueTagTable ==
    { <<"Unsupported", 16>>, <<"Unknown", 18>>, <<"NoValue", 19>>,
      <<"Integer", 33>>, <<"Boolean", 34>>, <<"Enum", 35>>,
      <<"OctetStringUnspecified", 48>>, <<"DateTime", 49>>, <<"Resolution", 50>>,
      <<"RangeOfInteger", 51>>, <<"BegCollection", 52>>, <<"TextWithLanguage", 53>>,
      <<"NameWithLanguage", 54>>, <<"EndCollection", 55>>,
      <<"TextWithoutLanguage", 65>>, <<"NameWithoutLanguage", 66>>, <<"Keyword", 68>>,
      <<"Uri", 69>>, <<"UriScheme", 70>>, <<"Charset", 71>>, <<"NaturalLanguage", 72>>,
      <<"MimeMediaType", 73>>, <<"MemberAttrName", 74>> }

\* `tag as u8`
ValueTagAsU8(t) == (CHOOSE e \in ValueTagTable : e[1] = t)[2]

\* ValueTag::from_u8: "None" for a byte outside the table
ValueTagFromU8(b) ==
    IF \E e \in ValueTagTable : e[2] = b
    THEN (CHOOSE e \in ValueTagTable : e[2] = b)[1]
    ELSE "None"

DelimiterTagTable ==
    { <<"OperationAttributes", 1>>, <<"JobAttributes", 2>>, <<"EndOfAttributes", 3>>,
      <<"PrinterAttributes", 4>>, <<"UnsupportedAttributes", 5>> }

DelimiterTagAsU8(t) == (CHOOSE e \in DelimiterTagTable : e[1] = t)[2]

DelimiterTagFromU8(b) ==
    IF \E e \in DelimiterTagTable : e[2] = b
    THEN (CHOOSE e \in DelimiterTagTable : e[2] = b)[1]
    ELSE "None"

OPERATION_ATTRIBUTES_TAG == DelimiterTagAsU8("OperationAttributes")

JOB_ATTRIBUTES_TAG == DelimiterTagAsU8("JobAttributes")

END_OF_ATTRIBUTES_TAG == DelimiterTagAsU8("EndOfAttributes")

PRINTER_ATTRIBUTES_TAG == DelimiterTagAsU8("PrinterAttributes")

(***************************************************************************)
(* IppValue (value.rs:18-58): one record per variant, k names the variant. *)
(***************************************************************************)
Integer(i) == [k |-> "Integer", i |-> i]

Enum(i) == [k |-> "Enum", i |-> i]

Boolean(b) == [k |-> "Boolean", b |-> b]

RangeOfInteger(min, max) == [k |-> "RangeOfInteger", min |-> min, max |-> max]

StringKinds ==
    { "OctetString", "TextWithoutLanguage", "NameWithoutLanguage", "Charset",
      "NaturalLanguage", "Uri", "Keyword", "MimeMediaType", "MemberAttrName" }

Str(kind, s) == [k |-> kind, s |-> s]

ListOf(list) == [k |-> "ListOf", list |-> list]

Collection(list) == [k |-> "Collection", list |-> list]

DateTime(year, month, day, hour, minutes, seconds, deciseconds, utcdir, utchours, utcmins) ==
    [k |-> "DateTime", year |-> year, month |-> month, day |-> day, hour |-> hour,
     minutes |-> minutes, seconds |-> seconds, deciseconds |-> deciseconds,
     utcdir |-> utcdir, utchours |-> utchours, utcmins |-> utcmins]

Resolution(crossfeed, feed, units) ==
    [k |-> "Resolution", crossfeed |-> crossfeed, feed |-> feed, units |-> units]

Other(tag, data) == [k |-> "Other", tag |-> tag, data |-> data]

\* IppValue::to_tag (value.rs:62-83)
RECURSIVE to_tag(_)
to_tag(v) ==
    CASE v.k = "Integer" -> "Integer"
      [] v.k = "Enum" -> "Enum"
      [] v.k = "RangeOfInteger" -> "RangeOfInteger"
      [] v.k = "Boolean" -> "Boolean"
      [] v.k = "Keyword" -> "Keyword"
      [] v.k = "OctetString" -> "OctetStringUnspecified"
      [] v.k = "TextWithoutLanguage" -> "TextWithoutLanguage"
      [] v.k = "NameWithoutLanguage" -> "NameWithoutLanguage"
      [] v.k = "Charset" -> "Charset"
      [] v.k = "NaturalLanguage" -> "NaturalLanguage"
      [] v.k = "Uri" -> "Uri"
      [] v.k = "MimeMediaType" -> "MimeMediaType"
      [] v.k = "ListOf" -> to_tag(v.list[1])
      [] v.k = "Collection" -> "BegCollection"
      [] v.k = "DateTime" -> "DateTime"
      [] v.k = "MemberAttrName" -> "MemberAttrName"
      [] v.k = "Resolution" -> "Resolution"
      [] v.k = "Other" -> "Unknown"

(***************************************************************************)
(* IppValue::write (value.rs:155-260).  A write yields the bytes appended  *)
(* to the writer and the count it returns.                                 *)
(***************************************************************************)
W(bytes, ret) == [bytes |-> bytes, ret |-> ret]

\* value.rs:157-161
WriteInteger(v) == W(U16Bytes(4) \o I32Bytes(v.i), 6)

\* value.rs:162-167
WriteRangeOfInteger(v) == W(U16Bytes(8) \o I32Bytes(v.min) \o I32Bytes(v.max), 10)

\* value.rs:168-172
WriteBoolean(v) == W(U16Bytes(1) \o <<IF v.b THEN 1 ELSE 0>>, 3)

\* value.rs:173-185
WriteString(v) == W(U16Bytes(Len(v.s) % 65536) \o v.s, 2 + Len(v.s))

\* value.rs:220-246
WriteDateTime(v) ==
    W(U16Bytes(11) \o U16Bytes(v.year)
        \o <<v.month, v.day, v.hour, v.minutes, v.seconds, v.deciseconds,
             U8(v.utcdir), v.utchours, v.utcmins>>, 13)

\* value.rs:247-253
WriteResolution(v) ==
    W(U16Bytes(9) \o I32Bytes(v.crossfeed) \o I32Bytes(v.feed) \o <<U8(v.units)>>, 9)

\* value.rs:254-258
WriteOther(v) == W(U16Bytes(Len(v.data) % 65536) \o v.data, 2 + Len(v.data))

RECURSIVE write(_), WriteListOf(_, _, _), WriteCollectionItems(_, _)
\* value.rs:186-197: the loop from item i on, tag being self.to_tag() as u8
WriteListOf(list, i, tag) ==
    IF i > Len(list) THEN W(<<>>, 0)
    ELSE LET item == write(list[i])
             sep == IF i - 1 < Len(list) - 1 THEN W(<<tag>> \o U16Bytes(0), 3) ELSE W(<<>>, 0)
             rest == WriteListOf(list, i + 1, tag)
         IN W(item.bytes \o sep.bytes \o rest.bytes, item.ret + sep.ret + rest.ret)

\* value.rs:205-212: the loop from item i on
WriteCollectionItems(list, i) ==
    IF i > Len(list) THEN W(<<>>, 0)
    ELSE LET item == write(list[i])
             rest == WriteCollectionItems(list, i + 1)
         IN W(<<ValueTagAsU8(to_tag(list[i]))>> \o U16Bytes(0) \o item.bytes \o rest.bytes,
              3 + item.ret + rest.ret)

write(v) ==
    CASE v.k \in {"Integer", "Enum"} -> WriteInteger(v)
      [] v.k = "RangeOfInteger" -> WriteRangeOfInteger(v)
      [] v.k = "Boolean" -> WriteBoolean(v)
      [] v.k \in StringKinds -> WriteString(v)
      [] v.k = "ListOf" -> WriteListOf(v.list, 1, ValueTagAsU8(to_tag(v)))
      [] v.k = "Collection" ->
            LET items == WriteCollectionItems(v.list, 1)
            IN W(U16Bytes(0) \o items.bytes \o <<ValueTagAsU8("EndCollection")>> \o U32Bytes(0),
                 2 + items.ret + 5)
      [] v.k = "DateTime" -> WriteDateTime(v)
      [] v.k = "Resolution" -> WriteResolution(v)
      [] v.k = "Other" -> WriteOther(v)

\* IppAttribute::new (attribute.rs:35-37)
IppAttribute(name, v) == [name |-> name, value |-> v]

\* IppAttribute::write (attribute.rs:50-65)
AttributeWrite(attr) ==
    LET val == write(attr.value)
    IN W(<<ValueTagAsU8(to_tag(attr.value))>> \o U16Bytes(Len(attr.name) % 65536)
            \o attr.name \o val.bytes,
         1 + 2 + Len(attr.name) + val.ret)

(***************************************************************************)
(* IppAttributeList (attribute.rs:70-102): group -> (name -> attribute),   *)
(* both BTreeMaps.                                                         *)
(***************************************************************************)
EmptyMap == << >>

MapInsert(m, key, v) == [x \in (DOMAIN m) \cup {key} |-> IF x = key THEN v ELSE m[x]]

\* add keeping the attribute a group already holds under the name
add_keep_first(list, group, attribute) ==
    LET withGroup == IF group \in DOMAIN list THEN list ELSE MapInsert(list, group, EmptyMap)
    IN IF attribute.name \in DOMAIN withGroup[group]
       THEN withGroup
       ELSE [withGroup EXCEPT ![group] = MapInsert(@, attribute.name, attribute)]

\* IppAttributeList::add (attribute.rs:83-89)
add(list, group, attribute) ==
    LET withGroup == IF group \in DOMAIN list THEN list ELSE MapInsert(list, group, EmptyMap)
    IN [withGroup EXCEPT ![group] = MapInsert(@, attribute.name, attribute)]

\* IppAttributeList::get (attribute.rs:92-97): Some(_) and the attribute in it
HasAttr(list, group, name) == group \in DOMAIN list /\ name \in DOMAIN list[group]

get(list, group, name) == list[group][name]

\* the order of String keys in a BTreeMap: lexicographic on the bytes
StrLess(a, b) ==
    \E i \in 1..(Len(a) + 1) :
        /\ i <= Len(b)
        /\ \A j \in 1..(i - 1) : a[j] = b[j]
        /\ (i = Len(a) + 1 \/ a[i] < b[i])

RECURSIVE SortedKeys(_)
SortedKeys(S) ==
    IF S = {} THEN << >>
    ELSE LET m == CHOOSE x \in S : \A y \in S \ {x} : StrLess(x, y)
         IN <<m>> \o SortedKeys(S \ {m})

(***************************************************************************)
(* IppAttributeList::write (attribute.rs:105-142).                         *)
(***************************************************************************)
\* consts::attribute (the attribute names, as bytes)
ATTRIBUTES_CHARSET ==
    <<97, 116, 116, 114, 105, 98, 117, 116, 101, 115, 45, 99, 104, 97, 114, 115, 101, 116>>

ATTRIBUTES_NATURAL_LANGUAGE ==
    <<97, 116, 116, 114, 105, 98, 117, 116, 101, 115, 45, 110, 97, 116, 117, 114, 97, 108,
      45, 108, 97, 110, 103, 117, 97, 103, 101>>

PRINTER_URI == <<112, 114, 105, 110, 116, 101, 114, 45, 117, 114, 105>>

\* attribute.rs:13-16
HEADER_ATTRS == <<ATTRIBUTES_CHARSET, ATTRIBUTES_NATURAL_LANGUAGE, PRINTER_URI>>

\* is_header_attr comparing with the first header name only
is_header_attr_first_only(attr) == HEADER_ATTRS[1] = attr

\* attribute.rs:18-20
is_header_attr(attr) == \E i \in 1..Len(HEADER_ATTRS) : HEADER_ATTRS[i] = attr

SW(st, bytes, ret) == [st |-> st, bytes |-> bytes, ret |-> ret]

\* attribute.rs:111-119: the loop over HEADER_ATTRS from index i on
RECURSIVE WriteHeaderAttrs(_, _)
WriteHeaderAttrs(list, i) ==
    IF i > Len(HEADER_ATTRS) THEN SW("ok", << >>, 0)
    ELSE IF HasAttr(list, OPERATION_ATTRIBUTES_TAG, HEADER_ATTRS[i])
         THEN LET a == AttributeWrite(get(list, OPERATION_ATTRIBUTES_TAG, HEADER_ATTRS[i]))
                  rest == WriteHeaderAttrs(list, i + 1)
              IN SW(rest.st, a.bytes \o rest.bytes, a.ret + rest.ret)
         ELSE SW("RequestError", << >>, 0)

\* attribute.rs:130-133: the attributes of a group in key order
RECURSIVE WriteAttrs(_, _, _)
WriteAttrs(attrs, keys, i) ==
    IF i > Len(keys) THEN W(<< >>, 0)
    ELSE LET a == AttributeWrite(attrs[keys[i]])
             rest == WriteAttrs(attrs, keys, i + 1)
         IN W(a.bytes \o rest.bytes, a.ret + rest.ret)

\* attribute.rs:123-136: one round of the loop over the three groups
WriteGroup(list, group) ==
    IF group \in DOMAIN list
    THEN LET attrs == list[group]
             tag == IF group # OPERATION_ATTRIBUTES_TAG THEN W(<<group>>, 1) ELSE W(<< >>, 0)
             keys == SortedKeys({n \in DOMAIN attrs :
                                   group # OPERATION_ATTRIBUTES_TAG
                                   \/ ~is_header_attr(attrs[n].name)})
             body == WriteAttrs(attrs, keys, 1)
         IN W(tag.bytes \o body.bytes, tag.ret + body.ret)
    ELSE W(<< >>, 0)

StoreWrite(list) ==
    LET hdr == WriteHeaderAttrs(list, 1)
        op == WriteGroup(list, OPERATION_ATTRIBUTES_TAG)
        job == WriteGroup(list, JOB_ATTRIBUTES_TAG)
        printer == WriteGroup(list, PRINTER_ATTRIBUTES_TAG)
    IN IF hdr.st # "ok"
       THEN SW(hdr.st, <<OPERATION_ATTRIBUTES_TAG>> \o hdr.bytes, 0)
       ELSE SW("ok",
               <<OPERATION_ATTRIBUTES_TAG>> \o hdr.bytes \o op.bytes \o job.bytes
                   \o printer.bytes \o <<END_OF_ATTRIBUTES_TAG>>,
               1 + hdr.ret + op.ret + job.ret + printer.ret + 1)

(***************************************************************************)
(* IppValue::read (value.rs:86-150).  A read yields its status, the value  *)
(* and the reader position after it.                                       *)
(*   st = "ok"     Ok(value)                                               *)
(*   st = "io"     Err(io::Error): the reader ran out of bytes             *)
(*   st = "panic"  a debug_assert_eq! on vsize failed (debug builds only)  *)
(***************************************************************************)
NoValue == [k |-> "none"]

ReadOk(v, p) == [st |-> "ok", value |-> v, pos |-> p]

ReadFail(st) == [st |-> st, value |-> NoValue, pos |-> 0]

\* IppReadExt::read_string / read_bytes: exactly len bytes, kept as they are
read_string(s, p, len) == Slice(s, p, len)

\* the IppValue variant a string-carrying tag decodes to
StringKindOf(ipptag) == IF ipptag = "OctetStringUnspecified" THEN "OctetString" ELSE ipptag

StringTags ==
    { "OctetStringUnspecified", "TextWithoutLanguage", "NameWithoutLanguage", "Charset",
      "NaturalLanguage", "Uri", "Keyword", "MimeMediaType", "MemberAttrName" }

\* value.rs:127-138
ReadDateTime(s, q) ==
    DateTime(U16From(s, q), s[q + 3], s[q + 4], s[q + 5], s[q + 6], s[q + 7], s[q + 8],
             s[q + 9], s[q + 10], s[q + 11])

\* value.rs:140-144
ReadResolution(s, q) == Resolution(I32From(s, q), I32From(s, q + 4), I8FromByte(s[q + 9]))

\* the payload bytes each decode arm takes from the reader (value.rs:99-148)
PayloadSize(ipptag, vsize) ==
    CASE ipptag \in {"Integer", "Enum"} -> 4
      [] ipptag = "RangeOfInteger" -> 8
      [] ipptag = "Boolean" -> 1
      [] ipptag = "DateTime" -> 11
      [] ipptag = "Resolution" -> 9
      [] OTHER -> vsize

\* the vsize a debug_assert_eq! demands (value.rs:101,105,115,122); -1: none
AssertedSize(ipptag) ==
    CASE ipptag \in {"Integer", "Enum"} -> 4
      [] ipptag = "RangeOfInteger" -> 8
      [] ipptag = "Boolean" -> 1
      [] OTHER -> -1

\* DecodePayload reporting a byte outside the tag table as ValueTag::Unknown
DecodePayloadUnknown(vtag, ipptag, s, q, vsize) ==
    CASE ipptag = "Integer" -> Integer(I32From(s, q))
      [] ipptag = "Enum" -> Enum(I32From(s, q))
      [] ipptag \in StringTags -> Str(StringKindOf(ipptag), read_string(s, q, vsize))
      [] ipptag = "RangeOfInteger" -> RangeOfInteger(I32From(s, q), I32From(s, q + 4))
      [] ipptag = "Boolean" -> Boolean(s[q + 1] # 0)
      [] ipptag = "DateTime" -> ReadDateTime(s, q)
      [] ipptag = "Resolution" -> ReadResolution(s, q)
      [] OTHER -> Other(ValueTagAsU8("Unknown"), Slice(s, q, vsize))

\* the value an arm builds from the payload at q (value.rs:92-148)
DecodePayload(vtag, ipptag, s, q, vsize) ==
    CASE ipptag = "Integer" -> Integer(I32From(s, q))
      [] ipptag = "Enum" -> Enum(I32From(s, q))
      [] ipptag \in StringTags -> Str(StringKindOf(ipptag), read_string(s, q, vsize))
      [] ipptag = "RangeOfInteger" -> RangeOfInteger(I32From(s, q), I32From(s, q + 4))
      [] ipptag = "Boolean" -> Boolean(s[q + 1] # 0)
      [] ipptag = "DateTime" -> ReadDateTime(s, q)
      [] ipptag = "Resolution" -> ReadResolution(s, q)
      [] OTHER -> Other(vtag, Slice(s, q, vsize))

read(vtag, s, p, dbg) ==
    IF Len(s) - p < 2 THEN ReadFail("io")
    ELSE LET vsize == U16From(s, p)
             q == p + 2
             ipptag == ValueTagFromU8(vtag)
             need == PayloadSize(ipptag, vsize)
         IN IF dbg /\ AssertedSize(ipptag) # -1 /\ vsize # AssertedSize(ipptag)
            THEN ReadFail("panic")
            ELSE IF Len(s) - q < need THEN ReadFail("io")
            ELSE ReadOk(DecodePayload(vtag, ipptag, s, q, vsize), q + need)

(***************************************************************************)
(* IppParser (parser.rs:48-161).  self is the record of the parser fields. *)
(***************************************************************************)
None == [some |-> FALSE, name |-> << >>]

Some(name) == [some |-> TRUE, name |-> name]

\* IppParser::new (parser.rs:58-66)
NewParser ==
    [last_delimiter |-> "EndOfAttributes", last_name |-> None,
     context |-> << << >> >>, attributes |-> EmptyMap]

\* list_or_value (parser.rs:27-33)
list_or_value(list) == IF Len(list) = 1 THEN list[1] ELSE ListOf(list)

\* IppParser::add_last_attribute (parser.rs:68-78)
add_last_attribute(self) ==
    IF ~self.last_name.some THEN self
    ELSE IF Len(self.context) > 0
         THEN [self EXCEPT
                 !.attributes = add(self.attributes, DelimiterTagAsU8(self.last_delimiter),
                                    IppAttribute(self.last_name.name,
                                                 list_or_value(Last(self.context)))),
                 !.context = Append(Front(self.context), << >>)]
         ELSE [self EXCEPT !.context = Append(self.context, << >>)]

\* parse_delimiter ending the parse at every tag from end-of-attributes up
parse_delimiter_ge(self, tag) ==
    IF tag >= DelimiterTagAsU8("EndOfAttributes")
    THEN [st |-> "break", self |-> add_last_attribute(self)]
    ELSE [st |-> "continue", self |-> [self EXCEPT !.last_delimiter = DelimiterTagFromU8(tag)]]

\* IppParser::parse_delimiter (parser.rs:80-91)
parse_delimiter(self, tag) ==
    IF tag = DelimiterTagAsU8("EndOfAttributes")
    THEN [st |-> "break", self |-> add_last_attribute(self)]
    ELSE IF DelimiterTagFromU8(tag) = "None"
         THEN [st |-> "InvalidTag", self |-> self]
         ELSE [st |-> "continue", self |-> [self EXCEPT !.last_delimiter = DelimiterTagFromU8(tag)]]

\* parser.rs:111 and 122: the guard `IppValue::Other { data } if data.is_empty()`
IsEmptyOther(v) == v.k = "Other" /\ Len(v.data) = 0

\* parser.rs:101-106
NameStep(self, namelen, name) ==
    IF namelen > 0
    THEN [add_last_attribute(self) EXCEPT !.last_name = Some(name)]
    ELSE self

\* parser.rs:118-132
EndCollectionStep(self) ==
    IF Len(self.context) > 0
    THEN LET arr == Last(self.context)
             rest == Front(self.context)
         IN IF Len(rest) > 0
            THEN [self EXCEPT !.context =
                      [rest EXCEPT ![Len(rest)] = Append(@, Collection(arr))]]
            ELSE [self EXCEPT !.context = rest]
    ELSE self

\* PushValueStep inserting at the front of the frame
PushValueStepFront(self, v) ==
    IF Len(self.context) > 0
    THEN [self EXCEPT !.context[Len(self.context)] = <<v>> \o @]
    ELSE self

\* parser.rs:133-136
PushValueStep(self, v) ==
    IF Len(self.context) > 0
    THEN [self EXCEPT !.context[Len(self.context)] = Append(@, v)]
    ELSE self

\* parser.rs:107-137, after the name has been handled
ValueStep(self, tag, v) ==
    IF tag = ValueTagAsU8("BegCollection")
    THEN IF IsEmptyOther(v)
         THEN [st |-> "ok", self |-> [self EXCEPT !.context = Append(@, << >>)]]
         ELSE [st |-> "InvalidCollection", self |-> self]
    ELSE IF tag = ValueTagAsU8("EndCollection")
    THEN IF IsEmptyOther(v)
         THEN [st |-> "ok", self |-> EndCollectionStep(self)]
         ELSE [st |-> "InvalidCollection", self |-> self]
    ELSE [st |-> "ok", self |-> PushValueStep(self, v)]

Entry(tag, name, v) == [tag |-> tag, name |-> name, value |-> v]

PV(st, self, p, entry) == [st |-> st, self |-> self, pos |-> p, entry |-> entry]

\* IppParser::parse_value (parser.rs:93-138); p is the position after the tag
parse_value(self, tag, s, p, dbg) ==
    IF Len(s) - p < 2 THEN PV("io", self, p, Entry(tag, << >>, NoValue))
    ELSE LET namelen == U16From(s, p) IN
         IF Len(s) - (p + 2) < namelen THEN PV("io", self, p, Entry(tag, << >>, NoValue))
         ELSE LET name == read_string(s, p + 2, namelen)
                  r == read(tag, s, p + 2 + namelen, dbg)
              IN IF r.st # "ok" THEN PV(r.st, self, p, Entry(tag, name, NoValue))
                 ELSE LET named == NameStep(self, namelen, name)
                          step == ValueStep(named, tag, r.value)
                      IN PV(step.st, step.self, r.pos, Entry(tag, name, r.value))

(***************************************************************************)
(* IppHeader::from_reader: version u16, operation/status u16, request id   *)
(* u32; an unsupported version is InvalidVersion.                          *)
(***************************************************************************)
SupportedVersions == { <<1, 0>>, <<1, 1>>, <<2, 0>>, <<2, 1>>, <<2, 2>> }

NoHeader == [version |-> << >>, operation_status |-> 0, request_id |-> << >>]

from_reader(s) ==
    IF Len(s) < 2 THEN [st |-> "io", header |-> NoHeader]
    ELSE IF Slice(s, 0, 2) \notin SupportedVersions
         THEN [st |-> "InvalidVersion", header |-> NoHeader]
         ELSE IF Len(s) < 8 THEN [st |-> "io", header |-> NoHeader]
         ELSE [st |-> "ok",
               header |-> [version |-> Slice(s, 0, 2), operation_status |-> U16From(s, 2),
                           request_id |-> Slice(s, 4, 4)]]

(***************************************************************************)
(* parse (parser.rs:141-160) as steps over the reader.                     *)
(***************************************************************************)
\* IppParseResult (parser.rs:36-45) or the ParseError; a panic returns nothing
Ok(h, attrs) == [st |-> "ok", header |-> h, attributes |-> attrs]

Err(e) == [st |-> e, header |-> NoHeader, attributes |-> EmptyMap]

NoResult == [st |-> "none", header |-> NoHeader, attributes |-> EmptyMap]

Self == [last_delimiter |-> last_delimiter, last_name |-> last_name,
         context |-> context, attributes |-> attributes]

SetSelf(self) ==
    /\ last_delimiter' = self.last_delimiter
    /\ last_name' = self.last_name
    /\ context' = self.context
    /\ attributes' = self.attributes

Finish(r) == pc' = "done" /\ result' = r

header == result.header

\* parser.rs:142: a short read blocks until the reader yields more or ends
ParseHeader ==
    /\ pc = "header"
    /\ LET h == from_reader(input)
       IN /\ h.st = "io" => eof
          /\ IF h.st = "ok"
             THEN pc' = "loop" /\ result' = [NoResult EXCEPT !.header = h.header] /\ pos' = 8
             ELSE Finish(Err(h.st)) /\ pos' = pos
    /\ UNCHANGED <<debug_assertions, value, store, wbuf, wres, input, eof, fed,
                   last_delimiter, last_name, context, attributes, trace,
                   latest, index, yielded>>

\* ParseLoop looking at a delimiter tag without taking it from the reader
ParseLoopPeek ==
    /\ pc = "loop"
    /\ IF pos >= Len(input)
       THEN /\ eof
            /\ Finish(Err("io"))
            /\ UNCHANGED <<pos, last_delimiter, last_name, context, attributes, trace>>
       ELSE LET tag == input[pos + 1] IN
            IF tag \in 1..5
            THEN LET d == parse_delimiter(Self, tag)
                 IN /\ SetSelf(d.self)
                    /\ pos' = pos
                    /\ trace' = Append(trace, Entry(tag, << >>, [k |-> "delimiter"]))
                    /\ CASE d.st = "break" -> Finish(Ok(header, d.self.attributes))
                         [] d.st = "continue" -> UNCHANGED <<pc, result>>
                         [] OTHER -> Finish(Err(d.st))
            ELSE IF tag \in 16..74
            THEN LET v == parse_value(Self, tag, input, pos + 1, debug_assertions)
                 IN /\ v.st = "io" => eof
                    /\ IF v.st = "ok"
                       THEN /\ SetSelf(v.self)
                            /\ pos' = v.pos
                            /\ trace' = Append(trace, v.entry)
                            /\ UNCHANGED <<pc, result>>
                       ELSE /\ Finish(IF v.st = "panic" THEN [NoResult EXCEPT !.st = "panic"]
                                      ELSE Err(v.st))
                            /\ UNCHANGED <<pos, last_delimiter, last_name, context,
                                           attributes, trace>>
            ELSE /\ Finish(Err("InvalidTag"))
                 /\ UNCHANGED <<pos, last_delimiter, last_name, context, attributes, trace>>
    /\ UNCHANGED <<debug_assertions, value, store, wbuf, wres, input, eof, fed,
                   latest, index, yielded>>

\* one iteration of the loop at parser.rs:145-157
ParseLoop ==
    /\ pc = "loop"
    /\ IF pos >= Len(input)
       THEN /\ eof
            /\ Finish(Err("io"))
            /\ UNCHANGED <<pos, last_delimiter, last_name, context, attributes, trace>>
       ELSE LET tag == input[pos + 1] IN
            IF tag \in 1..5
            THEN LET d == parse_delimiter(Self, tag)
                 IN /\ SetSelf(d.self)
                    /\ pos' = pos + 1
                    /\ trace' = Append(trace, Entry(tag, << >>, [k |-> "delimiter"]))
                    /\ CASE d.st = "break" -> Finish(Ok(header, d.self.attributes))
                         [] d.st = "continue" -> UNCHANGED <<pc, result>>
                         [] OTHER -> Finish(Err(d.st))
            ELSE IF tag \in 16..74
            THEN LET v == parse_value(Self, tag, input, pos + 1, debug_assertions)
                 IN /\ v.st = "io" => eof
                    /\ IF v.st = "ok"
                       THEN /\ SetSelf(v.self)
                            /\ pos' = v.pos
                            /\ trace' = Append(trace, v.entry)
                            /\ UNCHANGED <<pc, result>>
                       ELSE /\ Finish(IF v.st = "panic" THEN [NoResult EXCEPT !.st = "panic"]
                                      ELSE Err(v.st))
                            /\ UNCHANGED <<pos, last_delimiter, last_name, context,
                                           attributes, trace>>
            ELSE /\ Finish(Err("InvalidTag"))
                 /\ UNCHANGED <<pos, last_delimiter, last_name, context, attributes, trace>>
    /\ UNCHANGED <<debug_assertions, value, store, wbuf, wres, input, eof, fed,
                   latest, index, yielded>>

(***************************************************************************)
(* The reader: a byte source that yields the stream in chunks and then     *)
(* ends.  The parser runs whenever the bytes it asks for are there.        *)
(***************************************************************************)
\* [value-tag][name-length][name][value-length][value bytes]
Chunk(tag, name, vsize, payload) ==
    <<tag>> \o U16Bytes(Len(name)) \o name \o U16Bytes(vsize) \o payload

NameA == <<97>>

NameC == <<99>>

IntA == Chunk(ValueTagAsU8("Integer"), NameA, 4, I32Bytes(1))

IntE == Chunk(ValueTagAsU8("Integer"), << >>, 4, I32Bytes(-2))

BegC == Chunk(ValueTagAsU8("BegCollection"), NameC, 0, << >>)

BegE == Chunk(ValueTagAsU8("BegCollection"), << >>, 0, << >>)

EndE == Chunk(ValueTagAsU8("EndCollection"), << >>, 0, << >>)

KeyE == Chunk(ValueTagAsU8("Keyword"), << >>, 1, <<107>>)

\* chunks after which the stream goes on: a group delimiter, single entries,
\* an entry with a tag outside the tag table, and a whole inner collection
Chunks ==
    { <<DelimiterTagAsU8("PrinterAttributes")>>,
      IntA, IntE, BegC, BegE, EndE,
      Chunk(32, << >>, 1, <<9>>),
      BegE \o KeyE \o IntE \o EndE }

\* chunks that end the stream: end-of-attributes, a byte that is no tag, a
\* BegCollection with a payload, a Boolean whose vsize is 2, an entry cut short
LastChunks ==
    { <<DelimiterTagAsU8("EndOfAttributes")>>,
      <<0>>,
      Chunk(ValueTagAsU8("BegCollection"), << >>, 1, <<7>>),
      Chunk(ValueTagAsU8("Boolean"), << >>, 2, <<1, 3>>),
      <<ValueTagAsU8("Keyword"), 0>> }

Headers == { <<1, 1, 0, 0, 0, 0, 0, 0>>, <<3, 0, 0, 0, 0, 0, 0, 0>>, <<1, 1, 0>> }

\* the parser's next read would run past the bytes yielded so far
Blocked ==
    IF pc = "header" THEN from_reader(input).st = "io"
    ELSE IF pc = "loop"
    THEN IF pos >= Len(input) THEN TRUE
         ELSE IF input[pos + 1] \in 16..74
         THEN parse_value(Self, input[pos + 1], input, pos + 1, debug_assertions).st = "io"
         ELSE FALSE
    ELSE FALSE

NoWrite == [st |-> "none", n |-> 0, vn |-> 0]

Idle ==
    /\ value = NoValue
    /\ store = EmptyMap
    /\ latest = {}
    /\ wbuf = << >>
    /\ wres = NoWrite

\* no IppValueIterator has been made
NoIterator ==
    /\ index = 0
    /\ yielded = << >>

ParserInit ==
    /\ pos = 0
    /\ last_delimiter = NewParser.last_delimiter
    /\ last_name = NewParser.last_name
    /\ context = NewParser.context
    /\ attributes = NewParser.attributes
    /\ trace = << >>
    /\ result = NoResult

Init ==
    /\ debug_assertions \in BOOLEAN
    /\ Idle
    /\ input \in Headers
    /\ eof = (Len(input) < 8)
    /\ fed = 0
    /\ pc = "header"
    /\ ParserInit
    /\ NoIterator

\* the reader yields one more chunk
Feed ==
    /\ Blocked
    /\ ~eof
    /\ fed < MaxChunks
    /\ \E c \in Chunks : input' = input \o c
    /\ fed' = fed + 1
    /\ UNCHANGED <<debug_assertions, value, store, wbuf, wres, eof, pos, last_delimiter,
                   last_name, context, attributes, trace, pc, result,
                   latest, index, yielded>>

\* the reader yields its last chunk
FeedLast ==
    /\ Blocked
    /\ ~eof
    /\ \E c \in LastChunks : input' = input \o c
    /\ eof' = TRUE
    /\ UNCHANGED <<debug_assertions, value, store, wbuf, wres, fed, pos, last_delimiter,
                   last_name, context, attributes, trace, pc, result,
                   latest, index, yielded>>

\* the reader ends where it is
Close ==
    /\ Blocked
    /\ ~eof
    /\ eof' = TRUE
    /\ UNCHANGED <<debug_assertions, value, store, wbuf, wres, input, fed, pos,
                   last_delimiter, last_name, context, attributes, trace, pc, result,
                   latest, index, yielded>>

Next == Feed \/ FeedLast \/ Close \/ ParseHeader \/ ParseLoop

Spec == Init /\ [][Next]_vars

(***************************************************************************)
(* Codec runs: an attribute is written and the bytes are parsed back, as   *)
(* test_collection_de_serialize does (value.rs:377-407).                   *)
(***************************************************************************)
Scalars ==
    { Integer(1), Integer(-2), Enum(3), Boolean(TRUE), Boolean(FALSE),
      RangeOfInteger(-1, 300),
      Str("OctetString", <<0, 7>>), Str("TextWithoutLanguage", <<116>>),
      Str("NameWithoutLanguage", <<110>>), Str("Charset", <<117, 116, 102, 45, 56>>),
      Str("NaturalLanguage", <<101, 110>>), Str("Uri", <<105, 112, 112, 58>>),
      Str("Keyword", << >>), Str("Keyword", <<107>>), Str("MimeMediaType", <<97, 47, 98>>),
      Str("MemberAttrName", <<109>>),
      DateTime(2019, 2, 28, 23, 59, 58, 9, 43, 1, 30),
      DateTime(2019, 2, 28, 23, 59, 58, 9, 8722, 1, 30),
      Resolution(600, 300, 3), Resolution(-1, 0, -4),
      Other(ValueTagAsU8("Unknown"), << >>), Other(ValueTagAsU8("NoValue"), << >>),
      Other(32, <<1, 2>>) }

\* sequences over S of a length in lo..hi
SeqsOf(S, lo, hi) == UNION { [1..n -> S] : n \in lo..hi }

ListItems == { Integer(1), Boolean(TRUE), Collection(<<Integer(-2)>>) }

CollectionItems ==
    { Integer(1), Str("Keyword", <<107>>), Collection(<< >>),
      Collection(<<Str("MemberAttrName", <<109>>), Integer(-2)>>) }

\* the values the codec runs start from; a ListOf is never empty
Values ==
    Scalars
    \cup { ListOf(l) : l \in SeqsOf(ListItems, 1, MaxLen) }
    \cup { Collection(l) : l \in SeqsOf(CollectionItems, 0, MaxLen) }

CodecInit ==
    /\ debug_assertions \in BOOLEAN
    /\ value \in Values
    /\ store = EmptyMap
    /\ latest = {}
    /\ wbuf = << >>
    /\ wres = NoWrite
    /\ input = << >>
    /\ eof = FALSE
    /\ fed = 0
    /\ pc = "codec"
    /\ ParserInit
    /\ NoIterator

\* IppAttribute::new("a", value).write(&mut buf)
WriteAttribute ==
    /\ pc = "codec"
    /\ LET a == AttributeWrite(IppAttribute(NameA, value))
       IN /\ wbuf' = a.bytes
          /\ wres' = [st |-> "ok", n |-> a.ret, vn |-> write(value).ret]
    /\ pc' = "written"
    /\ UNCHANGED <<debug_assertions, value, store, input, eof, fed, pos, last_delimiter,
                   last_name, context, attributes, trace, result,
                   latest, index, yielded>>

\* value.rs:393-397: header, printer-attributes tag, the attribute, end-of-attributes
Decode ==
    /\ pc = "written"
    /\ input' = <<1, 1, 0, 0, 0, 0, 0, 0, PRINTER_ATTRIBUTES_TAG>> \o wbuf
                    \o <<END_OF_ATTRIBUTES_TAG>>
    /\ eof' = TRUE
    /\ pc' = "header"
    /\ UNCHANGED <<debug_assertions, value, store, wbuf, wres, fed, pos, last_delimiter,
                   last_name, context, attributes, trace, result,
                   latest, index, yielded>>

CodecNext == WriteAttribute \/ Decode \/ ParseHeader \/ ParseLoop

SpecCodec == CodecInit /\ [][CodecNext]_vars

(***************************************************************************)
(* Serializer runs: a caller builds a store with add, writes it, and the   *)
(* bytes, behind a header, are parsed.                                     *)
(***************************************************************************)
NameB == <<98>>

\* what the caller may add: [group, attribute]
Adds ==
    { <<OPERATION_ATTRIBUTES_TAG, IppAttribute(ATTRIBUTES_CHARSET, Str("Charset", <<117>>))>>,
      <<OPERATION_ATTRIBUTES_TAG,
        IppAttribute(ATTRIBUTES_NATURAL_LANGUAGE, Str("NaturalLanguage", <<101, 110>>))>>,
      <<OPERATION_ATTRIBUTES_TAG, IppAttribute(PRINTER_URI, Str("Uri", <<105, 112, 112>>))>>,
      <<OPERATION_ATTRIBUTES_TAG, IppAttribute(NameB, Integer(1))>>,
      <<OPERATION_ATTRIBUTES_TAG, IppAttribute(NameA, Str("Keyword", <<107>>))>>,
      <<JOB_ATTRIBUTES_TAG, IppAttribute(NameA, ListOf(<<Integer(1), Integer(-2)>>))>>,
      <<JOB_ATTRIBUTES_TAG, IppAttribute(NameA, Integer(3))>>,
      <<JOB_ATTRIBUTES_TAG, IppAttribute(ATTRIBUTES_CHARSET, Boolean(TRUE))>>,
      <<PRINTER_ATTRIBUTES_TAG, IppAttribute(NameC, Collection(<<Integer(1)>>))>>,
      <<DelimiterTagAsU8("UnsupportedAttributes"), IppAttribute(NameA, Integer(1))>> }

AttrCount(list) == Cardinality({ <<g, n>> \in (DOMAIN list) \X { a[2].name : a \in Adds } :
                                   n \in DOMAIN list[g] })

StoreInit ==
    /\ debug_assertions \in BOOLEAN
    /\ Idle
    /\ input = << >>
    /\ eof = FALSE
    /\ fed = 0
    /\ pc = "build"
    /\ ParserInit
    /\ NoIterator

\* list.add(group, attribute)
Add ==
    /\ pc = "build"
    /\ \E a \in Adds :
          /\ AttrCount(add(store, a[1], a[2])) <= MaxAttrs
          /\ store' = add(store, a[1], a[2])
          /\ latest' = { t \in latest : ~(t[1] = a[1] /\ t[2] = a[2].name) }
                           \cup { <<a[1], a[2].name, a[2],
                                     \E t \in latest : /\ t[1] = a[1] /\ t[2] = a[2].name
                                                        /\ (t[4] \/ t[3] # a[2])>> }
    /\ UNCHANGED <<debug_assertions, value, wbuf, wres, input, eof, fed, pos, last_delimiter,
                   last_name, context, attributes, trace, pc, result, index, yielded>>

\* list.write(&mut writer)
Serialize ==
    /\ pc = "build"
    /\ LET w == StoreWrite(store)
       IN /\ wbuf' = w.bytes
          /\ wres' = [st |-> w.st, n |-> w.ret, vn |-> 0]
    /\ pc' = "serialized"
    /\ UNCHANGED <<debug_assertions, value, store, input, eof, fed, pos, last_delimiter,
                   last_name, context, attributes, trace, result,
                   latest, index, yielded>>

\* the peer parses a valid header followed by the serializer's output
Receive ==
    /\ pc = "serialized"
    /\ wres.st = "ok"
    /\ input' = <<1, 1, 0, 0, 0, 0, 0, 0>> \o wbuf
    /\ eof' = TRUE
    /\ pc' = "header"
    /\ UNCHANGED <<debug_assertions, value, store, wbuf, wres, fed, pos, last_delimiter,
                   last_name, context, attributes, trace, result,
                   latest, index, yielded>>

StoreNext == Add \/ Serialize \/ Receive \/ ParseHeader \/ ParseLoop

SpecStore == StoreInit /\ [][StoreNext]_vars

(***************************************************************************)
(* Iterator runs: a caller iterates over a value (value.rs:312-349).        *)
(***************************************************************************)
\* IppValueIterator::next with a scalar arm that never advances index
next_scalar_again(v, i) ==
    IF v.k \in {"ListOf", "Collection"}
    THEN IF i < Len(v.list)
         THEN [item |-> v.list[i + 1], index |-> i + 1]
         ELSE [item |-> NoValue, index |-> i]
    ELSE [item |-> v, index |-> i]

\* IppValueIterator::next (value.rs:329-348): the item, NoValue for None, and
\* the index afterwards
next(v, i) ==
    IF v.k \in {"ListOf", "Collection"}
    THEN IF i < Len(v.list)
         THEN [item |-> v.list[i + 1], index |-> i + 1]
         ELSE [item |-> NoValue, index |-> i]
    ELSE IF i = 0
         THEN [item |-> v, index |-> i + 1]
         ELSE [item |-> NoValue, index |-> i]

\* the number of None results next has returned since into_iter
Polls == Cardinality({ i \in 1..Len(yielded) : yielded[i] = NoValue })

IterInit ==
    /\ debug_assertions \in BOOLEAN
    /\ value \in Values
    /\ store = EmptyMap
    /\ latest = {}
    /\ wbuf = << >>
    /\ wres = NoWrite
    /\ input = << >>
    /\ eof = FALSE
    /\ fed = 0
    /\ pc = "iter"
    /\ ParserInit
    /\ NoIterator

\* (&value).into_iter() (value.rs:316-318)
IntoIter ==
    /\ pc = "iter"
    /\ yielded # << >>
    /\ index' = 0
    /\ yielded' = << >>
    /\ UNCHANGED <<debug_assertions, value, store, wbuf, wres, input, eof, fed, pos,
                   last_delimiter, last_name, context, attributes, trace, pc, result, latest>>

\* iterator.next()
IterNext ==
    /\ pc = "iter"
    /\ Polls < MaxPolls
    /\ LET n == next(value, index)
       IN /\ index' = n.index
          /\ yielded' = Append(yielded, n.item)
    /\ UNCHANGED <<debug_assertions, value, store, wbuf, wres, input, eof, fed, pos,
                   last_delimiter, last_name, context, attributes, trace, pc, result, latest>>

IterStep == IntoIter \/ IterNext

SpecIter == IterInit /\ [][IterStep]_vars

(***************************************************************************)
(* Properties of the codec runs (SpecCodec).                               *)
(***************************************************************************)
\* the attribute the parse of the written bytes returned
Decoded == get(result.attributes, PRINTER_ATTRIBUTES_TAG, NameA).value

\* C1: for every constructible value v, writing v as an attribute value and
\* decoding the written bytes yields a value equal to v.
C1_RoundTrip ==
    pc = "done" =>
        /\ result.st = "ok"
        /\ HasAttr(result.attributes, PRINTER_ATTRIBUTES_TAG, NameA)
        /\ Decoded = value

\* C2: the count a successful value write returns is the number of bytes it
\* appended to the writer, and the attribute-level write returns
\* 1 + 2 + name length + that count.
C2_CountIsBytesWritten ==
    wres.st = "ok" =>
        /\ wres.vn = Len(wbuf) - (1 + 2 + Len(NameA))
        /\ wres.n = 1 + 2 + Len(NameA) + wres.vn

(***************************************************************************)
(* Properties of the parser on arbitrary streams (Spec).  They are stated  *)
(* over trace, the entries the parser has handled, in stream order.        *)
(***************************************************************************)
IsValueEntry(e) == e.value.k # "delimiter"

IsBeg(e) == IsValueEntry(e) /\ e.tag = 52

IsEnd(e) == IsValueEntry(e) /\ e.tag = 55

IsNamed(e) == IsValueEntry(e) /\ Len(e.name) > 0

IsEOA(e) == ~IsValueEntry(e) /\ e.tag = 3

\* the number of collections open after the first i entries of tr
RECURSIVE Depth(_, _)
Depth(tr, i) ==
    IF i = 0 THEN 0
    ELSE LET d == Depth(tr, i - 1)
         IN IF IsBeg(tr[i]) THEN d + 1
            ELSE IF IsEnd(tr[i]) /\ d > 0 THEN d - 1
            ELSE d

\* an EndCollection with no open BegCollection, or a BegCollection still open
\* at a new named entry or at end-of-attributes
Unbalanced(tr) ==
    \E i \in 1..Len(tr) :
        \/ IsEnd(tr[i]) /\ Depth(tr, i - 1) = 0
        \/ (IsNamed(tr[i]) \/ IsEOA(tr[i])) /\ Depth(tr, i - 1) > 0

\* C4: an unbalanced BegCollection/EndCollection sequence makes parse return
\* an error rather than a result.
C4_UnbalancedIsError ==
    (pc = "done" /\ Unbalanced(trace)) => result.st # "ok"

\* the EndCollection that closes the BegCollection at index a; 0 while it is open
MatchEnd(tr, a) ==
    LET closes(m) == /\ IsEnd(tr[m])
                     /\ Depth(tr, m) = Depth(tr, a - 1)
                     /\ \A x \in a..(m - 1) : Depth(tr, x) > Depth(tr, a - 1)
    IN IF \E m \in (a + 1)..Len(tr) : closes(m)
       THEN CHOOSE m \in (a + 1)..Len(tr) : closes(m)
       ELSE 0

\* the BegCollection still open after entry j that was opened last
OpenBeg(tr, j) ==
    CHOOSE i \in 1..j : IsBeg(tr[i]) /\ MatchEnd(tr, i) = 0 /\ Depth(tr, i) = Depth(tr, j)

\* the values of entries a..b in stream order, each BegCollection..EndCollection
\* pair among them being one Collection of the values between the pair
RECURSIVE Children(_, _, _)
Children(tr, a, b) ==
    IF a > b THEN << >>
    ELSE IF IsBeg(tr[a])
         THEN LET m == MatchEnd(tr, a)
              IN <<Collection(Children(tr, a + 1, m - 1))>> \o Children(tr, m + 1, b)
         ELSE IF IsValueEntry(tr[a])
              THEN <<tr[a].value>> \o Children(tr, a + 1, b)
              ELSE Children(tr, a + 1, b)

\* the BegCollection the EndCollection at index j closes
MatchBeg(tr, j) ==
    CHOOSE i \in 1..(j - 1) : IsBeg(tr[i]) /\ MatchEnd(tr, i) = j

\* C7: in a well-bracketed stream each BegCollection..EndCollection pair becomes
\* one Collection whose children are the values and inner Collections between
\* the pair, in stream order, placed in the enclosing frame.
C7_CollectionsReconstructed ==
    (trace # << >> /\ IsEnd(Last(trace)) /\ ~Unbalanced(trace)) =>
        LET j == Len(trace)
            d == Depth(trace, j)
        IN /\ Len(context) = 1 + d
           /\ Last(context) # << >>
           /\ Last(Last(context)) = Collection(Children(trace, MatchBeg(trace, j) + 1, j - 1))
           /\ d > 0 => Last(context) = Children(trace, OpenBeg(trace, j) + 1, j)

\* an inner collection with two members has just been closed inside an open one
C7_Witness ==
    /\ trace # << >>
    /\ IsEnd(Last(trace))
    /\ ~Unbalanced(trace)
    /\ Depth(trace, Len(trace)) = 1
    /\ Len(Last(Last(context)).list) = 2

\* the end-of-attributes byte was the last thing read, at a tag position
EndRead == trace # << >> /\ IsEOA(Last(trace)) /\ input[pos] = 3

\* the entry whose tag is at s[p + 1] is all there:
\* [value-tag][name-length][name][value-length][value bytes]
WireComplete(s, p) ==
    /\ Len(s) >= p + 3
    /\ Len(s) >= p + 3 + U16From(s, p + 1) + 2
    /\ Len(s) >= p + 3 + U16From(s, p + 1) + 2 + U16From(s, p + 3 + U16From(s, p + 1))

\* the stream ended inside the header, at a tag position or inside an entry
RanOut ==
    /\ eof
    /\ ~EndRead
    /\ IF pos = 0
       THEN Len(input) < 8 /\ (Len(input) < 2 \/ Slice(input, 0, 2) \in SupportedVersions)
       ELSE \/ pos >= Len(input)
            \/ input[pos + 1] \in 16..74 /\ ~WireComplete(input, pos)

\* C9: parse succeeds only when the tag loop reads end-of-attributes at a tag
\* position; a stream that ends before that fails with an IO error and
\* returns no header and no attributes.
C9_OnlyEndOfAttributesSucceeds ==
    pc = "done" =>
        /\ result.st = "ok" => EndRead
        /\ (RanOut /\ result.st # "panic") => result = Err("io")

\* a stream cut inside an entry, after an attribute was read, has failed
C9_Witness ==
    /\ pc = "done"
    /\ result.st = "io"
    /\ pos < Len(input)
    /\ \E i \in 1..Len(trace) : IsNamed(trace[i])

\* C10: while an attribute is pending, an entry with an empty name is appended
\* to the values of the pending attribute, never flushes the pending attribute
\* and never produces an attribute of its own.
C10_EmptyNameAppends ==
    [][(/\ trace' # trace
        /\ IsValueEntry(Last(trace'))
        /\ Last(trace').name = << >>
        /\ last_name.some) =>
          /\ attributes' = attributes
          /\ last_name' = last_name
          /\ (~IsBeg(Last(trace')) /\ ~IsEnd(Last(trace'))) =>
                /\ context # << >>
                /\ context' = [context EXCEPT ![Len(context)] = Append(@, Last(trace').value)]
      ]_vars

\* the entries after the named entry i that belong to it: up to the next named
\* entry or delimiter-free end, in stream order
RunEnd(tr, i) ==
    IF \E x \in (i + 1)..Len(tr) : IsNamed(tr[x])
    THEN (CHOOSE x \in (i + 1)..Len(tr) :
              IsNamed(tr[x]) /\ \A y \in (i + 1)..(x - 1) : ~IsNamed(tr[y])) - 1
    ELSE Len(tr)

RECURSIVE RunValues(_, _, _)
RunValues(tr, a, b) ==
    IF a > b THEN << >>
    ELSE IF IsValueEntry(tr[a]) THEN <<tr[a].value>> \o RunValues(tr, a + 1, b)
    ELSE RunValues(tr, a + 1, b)

\* the named entry i and its run hold no collection marker, and no later
\* entry carries the same name
PlainRun(tr, i) ==
    /\ IsNamed(tr[i])
    /\ \A x \in i..RunEnd(tr, i) : ~IsBeg(tr[x]) /\ ~IsEnd(tr[x])
    /\ \A x \in (i + 1)..Len(tr) : ~(IsNamed(tr[x]) /\ tr[x].name = tr[i].name)

\* C6: a named entry followed by no empty-name entries yields an attribute whose
\* value is that scalar; followed by n >= 1 empty-name entries it yields a
\* ListOf of the n + 1 values in stream order.
C6_ScalarOrList ==
    (pc = "done" /\ result.st = "ok") =>
        \A i \in 1..Len(trace) :
            PlainRun(trace, i) =>
                LET vals == RunValues(trace, i, RunEnd(trace, i))
                    expected == IF Len(vals) = 1 THEN vals[1] ELSE ListOf(vals)
                IN \E g \in DOMAIN result.attributes :
                      /\ trace[i].name \in DOMAIN result.attributes[g]
                      /\ result.attributes[g][trace[i].name].value = expected

(***************************************************************************)
(* Properties of the serializer runs (SpecStore).                          *)
(***************************************************************************)
MissingHeader(list) ==
    \E i \in 1..Len(HEADER_ATTRS) : ~HasAttr(list, OPERATION_ATTRIBUTES_TAG, HEADER_ATTRS[i])

\* C3: serializing a store that lacks one of the three mandated header
\* attributes fails with a request error, and no byte has been written when
\* the error is returned.
C3_MissingHeaderWritesNothing ==
    (wres.st # "none" /\ MissingHeader(store)) =>
        /\ wres.st = "RequestError"
        /\ wbuf = << >>

\* C5: for a store holding the three mandated operation attributes, parsing
\* the serializer's output behind a valid header yields the same attributes,
\* with equal values, under the same groups.
C5_StoreRoundTrip ==
    (pc = "done" /\ ~MissingHeader(store)) =>
        /\ result.st = "ok"
        /\ result.attributes = store

\* the sequences that hold each element of S once
Orderings(S) ==
    { q \in [1..Cardinality(S) -> S] : \A i, j \in 1..Cardinality(S) : q[i] = q[j] => i = j }

RECURSIVE Emitted(_, _, _)
Emitted(attrs, keys, i) ==
    IF i > Len(keys) THEN << >>
    ELSE AttributeWrite(attrs[keys[i]]).bytes \o Emitted(attrs, keys, i + 1)

\* what a group other than operation-attributes may put on the wire: nothing
\* when absent, else its tag and each of its attributes once
GroupEmitted(list, group) ==
    IF group \notin DOMAIN list THEN { << >> }
    ELSE { <<group>> \o Emitted(list[group], q, 1) : q \in Orderings(DOMAIN list[group]) }

\* C8: a successful serialization emits the operation-attributes tag, then
\* charset, natural language and target URI in that order, then the other
\* operation attributes with no header attribute repeated, then the
\* job-attributes group if present, then the printer-attributes group if
\* present, and last one end-of-attributes marker.
C8_EmissionOrder ==
    wres.st = "ok" =>
        \E q \in Orderings((DOMAIN store[OPERATION_ATTRIBUTES_TAG])
                              \ {HEADER_ATTRS[i] : i \in 1..Len(HEADER_ATTRS)}) :
          \E jobs \in GroupEmitted(store, JOB_ATTRIBUTES_TAG) :
            \E printers \in GroupEmitted(store, PRINTER_ATTRIBUTES_TAG) :
              LET op == store[OPERATION_ATTRIBUTES_TAG]
              IN wbuf = <<OPERATION_ATTRIBUTES_TAG>> \o Emitted(op, HEADER_ATTRS, 1)
                           \o Emitted(op, q, 1) \o jobs \o printers
                           \o <<END_OF_ATTRIBUTES_TAG>>

\* a store with a further operation attribute and a job group was written
C8_Witness ==
    /\ wres.st = "ok"
    /\ pc = "serialized"
    /\ JOB_ATTRIBUTES_TAG \in DOMAIN store
    /\ Cardinality(DOMAIN store[OPERATION_ATTRIBUTES_TAG]) > 3

(***************************************************************************)
(* Properties of IppValue::read inside the parser (Spec).                  *)
(***************************************************************************)
\* the parser is at the tag of a whole entry whose tag byte is no ValueTag
AtUnknownTag ==
    /\ pc = "loop"
    /\ pos < Len(input)
    /\ IF pos < Len(input)
       THEN input[pos + 1] \in 16..74 /\ ValueTagFromU8(input[pos + 1]) = "None"
       ELSE FALSE
    /\ WireComplete(input, pos)

\* C11: a read with a tag byte that maps to no ValueTag, with 2 + vsize bytes
\* in the reader, returns no error: it returns Other with that tag byte and
\* exactly the vsize payload bytes.
C11_UnknownTagIsOther ==
    [][(AtUnknownTag /\ (pos' # pos \/ pc' # pc)) =>
          LET tag == input[pos + 1]
              namelen == U16From(input, pos + 1)
              vsize == U16From(input, pos + 3 + namelen)
          IN /\ pc' = "loop"
             /\ trace' = Append(trace, Entry(tag, Slice(input, pos + 3, namelen),
                                             Other(tag, Slice(input, pos + 5 + namelen, vsize))))
      ]_vars

\* an entry with tag 0x20 and a one-byte payload has been read
C11_Witness ==
    /\ trace # << >>
    /\ Last(trace).tag = 32
    /\ Last(trace).value = Other(32, <<9>>)

(***************************************************************************)
(* Properties of IppAttributeList::add and get (SpecStore).                *)
(***************************************************************************)
\* C12: after any sequence of adds each group holds one attribute per name
\* added to it, get(group, name) returns the attribute of the most recent add
\* for that group and name, and nothing else is in the store.
C12_LastAddWins ==
    /\ \A t \in latest :
          /\ HasAttr(store, t[1], t[2])
          /\ get(store, t[1], t[2]) = t[3]
    /\ \A g \in DOMAIN store : \A n \in DOMAIN store[g] :
          Cardinality({ t \in latest : t[1] = g /\ t[2] = n }) = 1

\* an add has replaced an attribute of the job group while other groups hold theirs
C12_Witness ==
    /\ \E t \in latest : t[1] = JOB_ATTRIBUTES_TAG /\ t[4]
    /\ \E t \in latest : t[1] = OPERATION_ATTRIBUTES_TAG
    /\ \E t \in latest : t[1] = PRINTER_ATTRIBUTES_TAG

(***************************************************************************)
(* Properties of the iterator runs (SpecIter).                             *)
(***************************************************************************)
\* what an iteration over v is to yield
Items(v) == IF v.k \in {"ListOf", "Collection"} THEN v.list ELSE <<v>>

\* C13: iterating a value yields each child of a ListOf or Collection once, in
\* order, and then ends; any other value yields itself once and then ends; a
\* new iteration starts again from the first element.
C13_IterationYieldsItemsOnce ==
    pc = "iter" =>
        \A i \in 1..Len(yielded) :
            yielded[i] = IF i <= Len(Items(value)) THEN Items(value)[i] ELSE NoValue

\* a second iteration over a two-element list has yielded both and ended
C13_Witness ==
    /\ pc = "iter"
    /\ value.k = "ListOf"
    /\ Len(Items(value)) = 2
    /\ Len(yielded) = 3
    /\ index = 2

(***************************************************************************)
(* Properties of the parser on the serializer's output (SpecStore).        *)
(***************************************************************************)
\* the group delimiter that most recently precedes entry i of tr; 0 when none
RECURSIVE GroupAt(_, _)
GroupAt(tr, i) ==
    IF i <= 1 THEN 0
    ELSE IF ~IsValueEntry(tr[i - 1]) THEN tr[i - 1].tag
    ELSE GroupAt(tr, i - 1)

\* C14: every parsed attribute is stored under the group whose delimiter most
\* recently preceded its named entry, also when another group delimiter
\* follows before the attribute is flushed.
C14_StoredUnderOwnGroup ==
    (pc = "done" /\ result.st = "ok") =>
        \A i \in 1..Len(trace) :
            IsNamed(trace[i]) =>
                HasAttr(result.attributes, GroupAt(trace, i), trace[i].name)

(***************************************************************************)
(* Properties of the frame stack and of flushing (Spec).                   *)
(***************************************************************************)
\* C15: no ListOf value in the attribute store of a successful parse is empty.
C15_NoEmptyListOf ==
    (pc = "done" /\ result.st = "ok") =>
        \A g \in DOMAIN result.attributes : \A n \in DOMAIN result.attributes[g] :
            LET v == result.attributes[g][n].value
            IN v.k = "ListOf" => Len(v.list) > 0

\* C16: in every parser state the frame stack holds at least one frame and its
\* depth is one plus the number of BegCollection entries not yet closed, so no
\* decoded value is dropped for want of a frame.
C16_StackDepth ==
    /\ Len(context) >= 1
    /\ Len(context) = 1 + Depth(trace, Len(trace))

\* C17: every attribute of a parse result holds exactly the values of its own
\* named entry and of the empty-name entries that follow it up to the next
\* named entry or end-of-attributes; no value read before an attribute's named
\* entry ends up in it.
C17_OwnValuesOnly ==
    (pc = "done" /\ result.st = "ok" /\ ~Unbalanced(trace)) =>
        \A g \in DOMAIN result.attributes : \A n \in DOMAIN result.attributes[g] :
            \E i \in 1..Len(trace) :
                /\ IsNamed(trace[i])
                /\ trace[i].name = n
                /\ LET vals == Children(trace, i, RunEnd(trace, i))
                   IN result.attributes[g][n].value =
                          IF Len(vals) = 1 THEN vals[1] ELSE ListOf(vals)

\* C18: a successful value read consumes exactly 2 + vsize bytes for every tag
\* byte and every declared vsize, so an entry handled by the parser moves the
\* reader from its tag to the tag of the next entry.
C18_ReadConsumesDeclaredSize ==
    [][(pc = "loop" /\ trace' # trace /\ IsValueEntry(Last(trace'))) =>
          LET namelen == U16From(input, pos + 1)
              vsize == U16From(input, pos + 3 + namelen)
          IN pos' = pos + 1 + 2 + namelen + 2 + vsize
      ]_vars

\* a step of the reader: bytes arrive or the stream ends, the parser stays
ReaderStep == (input' # input \/ eof' # eof) /\ pos' = pos /\ pc' = pc

\* C19 as stated: every iteration of the tag loop that goes on has consumed at
\* least one byte, and the loop ends with success at end-of-attributes or with
\* an error at an invalid tag or at end of input.
C19_EndsAsStated ==
    [][pc = "loop" =>
          \/ ReaderStep
          \/ pc' = "loop" /\ pos' > pos /\ pos' <= Len(input)
          \/ pc' = "done" /\ result'.st \in {"ok", "InvalidTag", "io"}
      ]_vars

\* C19: every iteration of the tag loop that goes on has consumed at least one
\* byte of the finite input, and the loop ends with success at
\* end-of-attributes, with an error at an invalid tag, at an invalid collection
\* marker or at end of input, or with the panic of a size assertion.
C19_Terminates ==
    [][pc = "loop" =>
          \/ ReaderStep
          \/ pc' = "loop" /\ pos' > pos /\ pos' <= Len(input)
          \/ pc' = "done" /\ result'.st \in {"ok", "InvalidTag", "io", "InvalidCollection", "panic"}
      ]_vars

\* the loop has ended at a collection marker that carries a payload, after
\* entries were read
C19_Witness ==
    /\ pc = "done"
    /\ result.st = "InvalidCollection"
    /\ trace # << >>
    /\ pos < Len(input)

====
